---- MODULE Spec2Model ----
(***************************************************************************)
(* Model of the go-tunnel repository: the SSH implementation of the Tunnel *)
(* interface (SshTunnel: Start, forwardConnection, Stop), its factory and  *)
(* the FastStartTunnel helper.                                             *)
(*                                                                         *)
(* Goroutines are processes whose position is kept in a pc variable.       *)
(* Shared fields of SshTunnel are plain (unsynchronised) Go variables: a   *)
(* read and a later write of the same field by one goroutine are separate  *)
(* steps, so that racing appends can lose an entry.  Strings are modelled   *)
(* as sequences of one-character strings.                                  *)
(***************************************************************************)
EXTENDS Integers, Sequences, FiniteSets, TLC

\* ------------------------------------------------------------------ bounds
MaxConns == 2        \* connections the accept loop accepts in a run
MaxAcceptErrs == 1   \* failed accepts in a run
MaxStops == 2        \* calls of Stop() in a run

\* ------------------------------------------------------- program constants
minLocalPort == 50000
maxLocalPort == 65000

Conns == 1..MaxConns
Dirs == {"r2l", "l2r"}   \* forwarderFunc(localConn, remoteConn) / (remoteConn, localConn)

\* ------------------------------------------------------------ text helpers
Digits == {"0", "1", "2", "3", "4", "5", "6", "7", "8", "9"}
DigitVal == [d \in Digits |-> CASE d = "0" -> 0 [] d = "1" -> 1 [] d = "2" -> 2
                                [] d = "3" -> 3 [] d = "4" -> 4 [] d = "5" -> 5
                                [] d = "6" -> 6 [] d = "7" -> 7 [] d = "8" -> 8
                                [] OTHER -> 9]

\* strings.Index: position of the first occurrence of sep in s, 0 if none
Index(s, sep) ==
  LET hits == {i \in 1..(Len(s) - Len(sep) + 1) : SubSeq(s, i, i + Len(sep) - 1) = sep}
  IN IF hits = {} THEN 0 ELSE CHOOSE i \in hits : \A j \in hits : i <= j

\* strings.Split with a non-empty separator
RECURSIVE Split(_, _)
Split(s, sep) ==
  LET i == Index(s, sep)
  IN IF i = 0 THEN <<s>>
     ELSE <<SubSeq(s, 1, i - 1)>> \o Split(SubSeq(s, i + Len(sep), Len(s)), sep)

RECURSIVE DigitsValue(_)
DigitsValue(s) ==
  IF s = <<>> THEN 0
  ELSE 10 * DigitsValue(SubSeq(s, 1, Len(s) - 1)) + DigitVal[s[Len(s)]]

\* strconv.Atoi: optional sign, then one or more decimal digits
Atoi(s) ==
  LET signed == s # <<>> /\ s[1] \in {"+", "-"}
      body == IF signed THEN Tail(s) ELSE s
  IN IF body = <<>> \/ \E i \in 1..Len(body) : body[i] \notin Digits
     THEN [ok |-> FALSE, val |-> 0]
     ELSE [ok |-> TRUE,
           val |-> IF signed /\ s[1] = "-" THEN 0 - DigitsValue(body) ELSE DigitsValue(body)]

HTTP == <<"h", "t", "t", "p">>
HTTPS == <<"h", "t", "t", "p", "s">>
defaultProtocolPorts == (HTTP :> <<"8", "0">>) @@ (HTTPS :> <<"4", "4", "3">>)

splitAddrAndPort(addrAndPort, protocol) ==
  LET addrPortSplit == Split(addrAndPort, <<":">>)
      addr == addrPortSplit[1]
      noPort == Len(addrPortSplit) = 1
      known == protocol \in DOMAIN defaultProtocolPorts
      portStr == IF noPort
                 THEN (IF known THEN defaultProtocolPorts[protocol] ELSE <<>>)
                 ELSE addrPortSplit[2]
      portNum == Atoi(portStr)
  IN IF noPort /\ ~known THEN [addr |-> <<>>, port |-> -1, err |-> "no default port"]
     ELSE IF Len(addr) = 0 THEN [addr |-> <<>>, port |-> -1, err |-> "empty address"]
     ELSE IF Len(portStr) = 0 THEN [addr |-> <<>>, port |-> -1, err |-> "empty port"]
     ELSE IF ~portNum.ok THEN [addr |-> <<>>, port |-> -1, err |-> "invalid endpoint"]
     ELSE [addr |-> addr, port |-> portNum.val, err |-> "nil"]

getSSHServerAddrAndPort(tunnelConfig) ==
  LET sshEndpoint == tunnelConfig.TunnelEndpoint
      asPort == Atoi(sshEndpoint)
  IN IF asPort.ok
     THEN [addr |-> tunnelConfig.RemoteAddr, port |-> asPort.val, err |-> "nil"]
     ELSE splitAddrAndPort(sshEndpoint, tunnelConfig.TunneledProtocol)

\* ------------------------------------------------------ construction inputs
\* outputs of rand.Intn(n) that are tried: both ends of [0, n)
RandIntn(n) == {0, n - 1}

\* an upper end that is off by one
getRandomListeningPort_Inclusive ==
  {r + minLocalPort : r \in RandIntn(maxLocalPort - minLocalPort + 1)}

getRandomListeningPort == {r + minLocalPort : r \in RandIntn(maxLocalPort - minLocalPort)}

\* names registered in CommunicationTunnelFactories by init()
CommunicationTunnelFactories == {"SSH"}

TunnelEndpoints == { <<"h", ":", "2", "2">>, <<"2", "2">>, <<"h">>,
                     <<":", "2", "2">>, <<"h", ":">>, <<"h", ":", "x">> }
TunnelConfigs ==
  [Protocol : {"SSH", "VPN"}, TunnelEndpoint : TunnelEndpoints,
   RemoteAddr : {<<"r">>}, RemotePort : {80},
   TunneledProtocol : {HTTP, <<"f", "t", "p">>}]

\* ----------------------------------------------------- BuildTunnelConfig
\* a getTunneledProtocolAndRemoteAddr that leaves an unspecified protocol empty
getTunneledProtocolAndRemoteAddr_NoDefault(remoteAddr) ==
  LET protocolSplit == Split(remoteAddr, <<":", "/", "/">>)
  IN IF Len(protocolSplit) = 1
     THEN [protocol |-> <<>>, addr |-> protocolSplit[1]]
     ELSE [protocol |-> protocolSplit[1], addr |-> protocolSplit[2]]

getTunneledProtocolAndRemoteAddr(remoteAddr) ==
  LET protocolSplit == Split(remoteAddr, <<":", "/", "/">>)
  IN IF Len(protocolSplit) = 1
     THEN [protocol |-> HTTP, addr |-> protocolSplit[1]]
     ELSE [protocol |-> protocolSplit[1], addr |-> protocolSplit[2]]

\* the error, or the configuration as a one-element set (user and password
\* are copied through and left out)
BuildTunnelConfig(protocol, tunnelEndpoint, destEndpoint) ==
  LET tunneled == getTunneledProtocolAndRemoteAddr(destEndpoint)
      remote == splitAddrAndPort(tunneled.addr, tunneled.protocol)
  IN IF remote.err # "nil" THEN [err |-> remote.err, cfg |-> {}]
     ELSE [err |-> "nil",
           cfg |-> {[Protocol |-> protocol, TunnelEndpoint |-> tunnelEndpoint,
                     RemoteAddr |-> remote.addr, RemotePort |-> remote.port,
                     TunneledProtocol |-> tunneled.protocol]}]

\* destination strings [protocol://]host[:port], given by their parts; the
\* protocol and the port are a one-element set, or empty when left out
FTP == <<"f", "t", "p">>
DestParts == [protocol : {{}, {HTTP}, {HTTPS}, {FTP}},
              host : {<<"h">>, <<>>},
              port : {{}, {<<"8">>}, {<<>>}, {<<"x">>}}]
DestString(parts) ==
  (IF parts.protocol = {} THEN <<>>
   ELSE (CHOOSE x \in parts.protocol : TRUE) \o <<":", "/", "/">>)
  \o parts.host
  \o (IF parts.port = {} THEN <<>> ELSE <<":">> \o (CHOOSE x \in parts.port : TRUE))

NotBuilt == [parts |-> [protocol |-> {}, host |-> <<>>, port |-> {}],
             err |-> "not called", cfg |-> {}]

VARIABLES
  built,        \* what the caller's BuildTunnelConfig call was given and returned,
                \* until FastStartTunnel is called
  fst,          \* position of the caller inside FastStartTunnel
  fstErr,       \* error FastStartTunnel returned ("nil": none)
  startPc,      \* position of the Start goroutine
  tunnelReady,  \* values received from the tunnelReady channel, in order
  localPort,    \* port of localTunnelEndpoint (0: no tunnel constructed)
  nConns,       \* connections accepted so far; they are numbered 1..nConns
  acceptErrs,   \* failed accepts so far
  localConns, sshConns, remoteConns,   \* the three tracked slices
  local, sshSt, remote,                \* per connection: "none", "open", "closed"
  pc,           \* per connection: position of its forwardConnection goroutine
  tmp,          \* per connection: the slice value read by a pending append
  task,         \* per connection and direction: position of the copy goroutine
  err,          \* per connection: the err variable shared by both closures
  willClose, isClosed,
  stopPc,       \* position of the caller inside Stop
  stopCalls,    \* completed calls of Stop
  stopPre,      \* while Stop runs: the number of connections accepted when it
                \* was called, if each of them was at the copy stage and fully
                \* tracked; otherwise -1
  logged,       \* connections a copy task of which logged an I/O copy error
  ownErr,       \* copy tasks whose io.Copy returned an error and that have not
                \* finished yet
  remoteFirst   \* connections whose remote side ended first with EOF and whose
                \* local-to-remote copy has not finished yet

vars == <<built, fst, fstErr, startPc, tunnelReady, localPort, nConns, acceptErrs,
          localConns, sshConns, remoteConns, local, sshSt, remote, pc, tmp,
          task, err, willClose, isClosed, stopPc, stopCalls, stopPre, logged, ownErr,
          remoteFirst>>

engineVars == <<nConns, acceptErrs, localConns, sshConns, remoteConns, local,
                sshSt, remote, pc, tmp, task, err, willClose, isClosed, logged,
                ownErr, remoteFirst>>
stopVars == <<stopPc, stopCalls, stopPre>>

Init ==
  /\ built = NotBuilt
  /\ fst = "init" /\ fstErr = "nil" /\ startPc = "idle" /\ tunnelReady = <<>>
  /\ localPort = 0 /\ nConns = 0 /\ acceptErrs = 0
  /\ localConns = <<>> /\ sshConns = <<>> /\ remoteConns = <<>>
  /\ local = [c \in Conns |-> "none"]
  /\ sshSt = [c \in Conns |-> "none"]
  /\ remote = [c \in Conns |-> "none"]
  /\ pc = [c \in Conns |-> "none"]
  /\ tmp = [c \in Conns |-> <<>>]
  /\ task = [c \in Conns |-> [d \in Dirs |-> "none"]]
  /\ err = [c \in Conns |-> "nil"]
  /\ willClose = FALSE /\ isClosed = FALSE
  /\ stopPc = "idle" /\ stopCalls = 0 /\ stopPre = -1
  /\ logged = {} /\ ownErr = {} /\ remoteFirst = {}

\* ----------------------------------------------------------- construction
\* SshTunnelFactory: the error of getSSHServerAddrAndPort, or a tunnel whose
\* local port is drawn by getRandomListeningPort
SshTunnelFactory(tunnelConfig) ==
  LET server == getSSHServerAddrAndPort(tunnelConfig)
  IN IF server.err # "nil" THEN {[err |-> server.err, port |-> 0]}
     ELSE {[err |-> "nil", port |-> p] : p \in getRandomListeningPort}

\* the caller builds its configuration with BuildTunnelConfig
BuildCall ==
  /\ fst = "init" /\ built = NotBuilt
  /\ \E protocol \in {"SSH", "VPN"}, tunnelEndpoint \in TunnelEndpoints,
        parts \in DestParts :
       LET r == BuildTunnelConfig(protocol, tunnelEndpoint, DestString(parts))
       IN built' = [parts |-> parts, err |-> r.err, cfg |-> r.cfg]
  /\ UNCHANGED <<fst, fstErr, startPc, tunnelReady, localPort, engineVars, stopVars>>

\* FastStartTunnel up to the receive from tunnelReady.  The caller passes a
\* TunnelConfig literal or the configuration BuildTunnelConfig returned.
FastStartCall ==
  /\ fst = "init"
  /\ \E tunnelConfig \in TunnelConfigs \cup built.cfg :
       IF tunnelConfig.Protocol \notin CommunicationTunnelFactories
       THEN /\ fst' = "returned" /\ fstErr' = "not supported tunnel protocol"
            /\ UNCHANGED <<startPc, localPort>>
       ELSE \E t \in SshTunnelFactory(tunnelConfig) :
              IF t.err # "nil"
              THEN /\ fst' = "returned" /\ fstErr' = "create tunnel instance failed"
                   /\ UNCHANGED <<startPc, localPort>>
              ELSE /\ fst' = "waiting" /\ localPort' = t.port
                   /\ startPc' = "listen" /\ UNCHANGED fstErr
  /\ built' = NotBuilt
  /\ UNCHANGED <<tunnelReady, engineVars, stopVars>>

\* the receive <-tunnelReady meets the send of Start; the value is dropped
FastStartReceive(v) ==
  /\ fst' = "returned" /\ fstErr' = "nil"
  /\ tunnelReady' = Append(tunnelReady, v)

\* ------------------------------------------------------------------ Start
\* net.Listen fails: the port is taken
StartListenFail ==
  /\ startPc = "listen"
  /\ startPc' = "sendFalse"
  /\ UNCHANGED <<built, fst, fstErr, tunnelReady, localPort, engineVars, stopVars>>

\* the accept loop entered without the send on tunnelReady
StartListenOk_NoSignal ==
  /\ startPc = "listen"
  /\ startPc' = "accept"
  /\ UNCHANGED <<built, fst, fstErr, tunnelReady, localPort, engineVars, stopVars>>

StartListenOk ==
  /\ startPc = "listen"
  /\ startPc' = "sendTrue"
  /\ UNCHANGED <<built, fst, fstErr, tunnelReady, localPort, engineVars, stopVars>>

\* the bind-failure branch without its return
StartSendFalse_NoReturn ==
  /\ startPc = "sendFalse" /\ fst = "waiting"
  /\ FastStartReceive(FALSE)
  /\ startPc' = "accept"
  /\ UNCHANGED <<built, localPort, engineVars, stopVars>>

\* tunnelReady <- false; return
StartSendFalse ==
  /\ startPc = "sendFalse" /\ fst = "waiting"
  /\ FastStartReceive(FALSE)
  /\ startPc' = "returned"
  /\ UNCHANGED <<built, localPort, engineVars, stopVars>>

\* tunnelReady <- true, then the accept loop
StartSendTrue ==
  /\ startPc = "sendTrue" /\ fst = "waiting"
  /\ FastStartReceive(TRUE)
  /\ startPc' = "accept"
  /\ UNCHANGED <<built, localPort, engineVars, stopVars>>

\* The accept loop has no exit: Start never returns from it, so the deferred
\* listener.Close() never runs and nothing else closes the listener.
\* accept loop: listener.Accept() failed, the error is logged, continue
AcceptFail ==
  /\ startPc = "accept" /\ acceptErrs < MaxAcceptErrs
  /\ acceptErrs' = acceptErrs + 1
  /\ UNCHANGED <<ownErr, built, fst, fstErr, startPc, tunnelReady, localPort, nConns,
                 localConns, sshConns, remoteConns, local, sshSt, remote, pc,
                 tmp, task, err, willClose, isClosed, logged,
                 remoteFirst, stopVars>>

\* an accept loop that calls forwardConnection without go: it accepts again
\* only after forwardConnection has returned
AcceptOk_Waits ==
  /\ startPc = "accept" /\ nConns < MaxConns
  /\ \A o \in 1..nConns : pc[o] \in {"copy", "aborted"}
  /\ LET c == nConns + 1 IN
       /\ nConns' = c
       /\ local' = [local EXCEPT ![c] = "open"]
       /\ localConns' = Append(localConns, c)
       /\ pc' = [pc EXCEPT ![c] = "handshake"]
  /\ UNCHANGED <<ownErr, built, fst, fstErr, startPc, tunnelReady, localPort, acceptErrs,
                 sshConns, remoteConns, sshSt, remote, tmp, task, err,
                 willClose, isClosed, logged, remoteFirst, stopVars>>

\* accept loop: a connection is accepted, appended to localConns (the loop is
\* the only writer of localConns) and handed to go s.forwardConnection
AcceptOk ==
  /\ startPc = "accept" /\ nConns < MaxConns
  /\ LET c == nConns + 1 IN
       /\ nConns' = c
       /\ local' = [local EXCEPT ![c] = "open"]
       /\ localConns' = Append(localConns, c)
       /\ pc' = [pc EXCEPT ![c] = "handshake"]
  /\ UNCHANGED <<ownErr, built, fst, fstErr, startPc, tunnelReady, localPort, acceptErrs,
                 sshConns, remoteConns, sshSt, remote, tmp, task, err,
                 willClose, isClosed, logged, remoteFirst,
                 stopVars>>

\* ------------------------------------------------------ forwardConnection
\* a Close() that faults on a resource that is closed already
Close_Faulting(st) == IF st = "closed" THEN "fault" ELSE "closed"

\* Close() of a net.Conn or an ssh.Client: closing again changes nothing
Close(st) == "closed"

Range(s) == {s[i] : i \in 1..Len(s)}

\* for _, x := range coll { x.Close() }
CloseAll(st, coll) == [c \in Conns |-> IF c \in Range(coll) THEN Close(st[c]) ELSE st[c]]

\* connectToServerSsh failed: localConn.Close(); return
HandshakeFail(c) ==
  /\ pc[c] = "handshake"
  /\ local' = [local EXCEPT ![c] = Close(local[c])]
  /\ pc' = [pc EXCEPT ![c] = "aborted"]
  /\ UNCHANGED <<ownErr, built, fst, fstErr, startPc, tunnelReady, localPort, nConns,
                 acceptErrs, localConns, sshConns, remoteConns, sshSt, remote,
                 tmp, task, err, willClose, isClosed, logged,
                 remoteFirst, stopVars>>

\* connectToServerSsh succeeded; append() reads s.sshConns
HandshakeOk(c) ==
  /\ pc[c] = "handshake"
  /\ sshSt' = [sshSt EXCEPT ![c] = "open"]
  /\ tmp' = [tmp EXCEPT ![c] = sshConns]
  /\ pc' = [pc EXCEPT ![c] = "trackSsh"]
  /\ UNCHANGED <<ownErr, built, fst, fstErr, startPc, tunnelReady, localPort, nConns,
                 acceptErrs, localConns, sshConns, remoteConns, local, remote,
                 task, err, willClose, isClosed, logged,
                 remoteFirst, stopVars>>

\* s.sshConns = append(<the slice read>, serverConn)
TrackSsh(c) ==
  /\ pc[c] = "trackSsh"
  /\ sshConns' = Append(tmp[c], c)
  /\ tmp' = [tmp EXCEPT ![c] = <<>>]
  /\ pc' = [pc EXCEPT ![c] = "dial"]
  /\ UNCHANGED <<ownErr, built, fst, fstErr, startPc, tunnelReady, localPort, nConns,
                 acceptErrs, localConns, remoteConns, local, sshSt, remote,
                 task, err, willClose, isClosed, logged,
                 remoteFirst, stopVars>>

\* a dial-failure branch that leaves the session open
DialFail_LeavesSession(c) ==
  /\ pc[c] = "dial"
  /\ local' = [local EXCEPT ![c] = Close(local[c])]
  /\ pc' = [pc EXCEPT ![c] = "aborted"]
  /\ UNCHANGED <<ownErr, built, fst, fstErr, startPc, tunnelReady, localPort, nConns,
                 acceptErrs, localConns, sshConns, remoteConns, sshSt, remote, tmp,
                 task, err, willClose, isClosed, logged, remoteFirst, stopVars>>

\* serverConn.Dial failed: localConn.Close(); serverConn.Close(); return
DialFail(c) ==
  /\ pc[c] = "dial"
  /\ local' = [local EXCEPT ![c] = Close(local[c])]
  /\ sshSt' = [sshSt EXCEPT ![c] = Close(sshSt[c])]
  /\ pc' = [pc EXCEPT ![c] = "aborted"]
  /\ UNCHANGED <<ownErr, built, fst, fstErr, startPc, tunnelReady, localPort, nConns,
                 acceptErrs, localConns, sshConns, remoteConns, remote, tmp,
                 task, err, willClose, isClosed, logged,
                 remoteFirst, stopVars>>

\* serverConn.Dial succeeded (the client is still open); append() reads
\* s.remoteConns
DialOk(c) ==
  /\ pc[c] = "dial" /\ sshSt[c] = "open"
  /\ remote' = [remote EXCEPT ![c] = "open"]
  /\ tmp' = [tmp EXCEPT ![c] = remoteConns]
  /\ pc' = [pc EXCEPT ![c] = "trackRemote"]
  /\ UNCHANGED <<ownErr, built, fst, fstErr, startPc, tunnelReady, localPort, nConns,
                 acceptErrs, localConns, sshConns, remoteConns, local, sshSt,
                 task, err, willClose, isClosed, logged,
                 remoteFirst, stopVars>>

\* s.remoteConns = append(<the slice read>, remoteConn); both go forwarderFunc
TrackRemote(c) ==
  /\ pc[c] = "trackRemote"
  /\ remoteConns' = Append(tmp[c], c)
  /\ tmp' = [tmp EXCEPT ![c] = <<>>]
  /\ pc' = [pc EXCEPT ![c] = "copy"]
  /\ task' = [task EXCEPT ![c] = [d \in Dirs |-> "copying"]]
  /\ UNCHANGED <<ownErr, built, fst, fstErr, startPc, tunnelReady, localPort, nConns,
                 acceptErrs, localConns, sshConns, local, sshSt, remote, err,
                 willClose, isClosed, logged, remoteFirst,
                 stopVars>>

\* ---------------------------------------------------------- forwarderFunc
\* What io.Copy(writer, reader) can return.  An I/O error can arrive at any
\* time.  nil (EOF of the reader) needs the reader's peer to end the stream:
\* a read of the local TCP socket after its Close() fails instead, a read of
\* the SSH channel ends with EOF also after its Close().
CopyResults(c, d) ==
  {"err"} \cup (IF d = "l2r" /\ local[c] # "open" THEN {} ELSE {"nil"})

\* _, err = io.Copy(writer, reader): err is the variable of forwardConnection
CopyReturn(c, d) ==
  /\ task[c][d] = "copying"
  /\ \E res \in CopyResults(c, d) :
       /\ err' = [err EXCEPT ![c] = res]
       /\ ownErr' = IF res = "err" THEN ownErr \cup {<<c, d>>} ELSE ownErr
       /\ remoteFirst' = IF /\ d = "r2l" /\ res = "nil"
                            /\ task[c]["l2r"] = "copying"
                            /\ local[c] = "open" /\ remote[c] = "open"
                         THEN remoteFirst \cup {c} ELSE remoteFirst
  /\ task' = [task EXCEPT ![c][d] = "returned"]
  /\ UNCHANGED <<built, fst, fstErr, startPc, tunnelReady, localPort, nConns,
                 acceptErrs, localConns, sshConns, remoteConns, local, sshSt,
                 remote, pc, tmp, willClose, isClosed, logged,
                 stopVars>>

\* an error branch that closes every tracked socket, not only its own
CopyFinish_ClosesAll(c, d) ==
  /\ task[c][d] = "returned"
  /\ remote' = [remote EXCEPT ![c] = Close(remote[c])]
  /\ IF err[c] = "nil"
     THEN /\ local' = [local EXCEPT ![c] = Close(local[c])]
          /\ UNCHANGED <<logged, sshSt, isClosed>>
     ELSE /\ local' = CloseAll(local, localConns)
          /\ logged' = IF ~willClose THEN logged \cup {c} ELSE logged
          /\ sshSt' = [sshSt EXCEPT ![c] = Close(sshSt[c])]
          /\ isClosed' = TRUE
  /\ task' = [task EXCEPT ![c][d] = "done"]
  /\ ownErr' = ownErr \ {<<c, d>>}
  /\ remoteFirst' = IF d = "l2r" THEN remoteFirst \ {c} ELSE remoteFirst
  /\ UNCHANGED <<built, fst, fstErr, startPc, tunnelReady, localPort, nConns,
                 acceptErrs, localConns, sshConns, remoteConns, pc, tmp, err,
                 willClose, stopVars>>

\* err != nil is read.  nil: only the deferred reader.Close(), writer.Close()
\* run.  Otherwise the error is logged unless willClose, the three resources
\* are closed and isClosed is set, then the deferred closes run.
CopyFinish(c, d) ==
  /\ task[c][d] = "returned"
  /\ local' = [local EXCEPT ![c] = Close(local[c])]
  /\ remote' = [remote EXCEPT ![c] = Close(remote[c])]
  /\ IF err[c] = "nil"
     THEN UNCHANGED <<logged, sshSt, isClosed>>
     ELSE /\ logged' = IF ~willClose THEN logged \cup {c} ELSE logged
          /\ sshSt' = [sshSt EXCEPT ![c] = Close(sshSt[c])]
          /\ isClosed' = TRUE
  /\ task' = [task EXCEPT ![c][d] = "done"]
  /\ ownErr' = ownErr \ {<<c, d>>}
  /\ remoteFirst' = IF d = "l2r" THEN remoteFirst \ {c} ELSE remoteFirst
  /\ UNCHANGED <<built, fst, fstErr, startPc, tunnelReady, localPort, nConns,
                 acceptErrs, localConns, sshConns, remoteConns, pc, tmp, err,
                 willClose, stopVars>>

\* ------------------------------------------------------------------- Stop

\* a connection whose pipeline is at the copy stage with all three tracked
FullyTracked(c) ==
  /\ pc[c] = "copy"
  /\ c \in Range(localConns) /\ c \in Range(sshConns) /\ c \in Range(remoteConns)

\* a Stop() that does not raise willClose before it closes
StopBegin_NoFlag ==
  /\ fst = "returned" /\ fstErr = "nil"
  /\ stopPc = "idle" /\ stopCalls < MaxStops
  /\ stopPc' = "locals"
  /\ stopPre' = IF \A c \in 1..nConns : FullyTracked(c) THEN nConns ELSE -1
  /\ UNCHANGED <<ownErr, built, fst, fstErr, startPc, tunnelReady, localPort, nConns,
                 acceptErrs, localConns, sshConns, remoteConns, local, sshSt,
                 remote, pc, tmp, task, err, willClose, isClosed, stopCalls,
                 logged, remoteFirst>>

\* the caller holds the tunnel FastStartTunnel returned and calls Stop():
\* s.willClose = true
StopBegin ==
  /\ fst = "returned" /\ fstErr = "nil"
  /\ stopPc = "idle" /\ stopCalls < MaxStops
  /\ willClose' = TRUE
  /\ stopPc' = "locals"
  /\ stopPre' = IF \A c \in 1..nConns : FullyTracked(c) THEN nConns ELSE -1
  /\ UNCHANGED <<ownErr, built, fst, fstErr, startPc, tunnelReady, localPort, nConns,
                 acceptErrs, localConns, sshConns, remoteConns, local, sshSt,
                 remote, pc, tmp, task, err, isClosed, stopCalls,
                 logged, remoteFirst>>

StopCloseLocals ==
  /\ stopPc = "locals"
  /\ local' = CloseAll(local, localConns)
  /\ stopPc' = "sshs"
  /\ UNCHANGED <<ownErr, built, fst, fstErr, startPc, tunnelReady, localPort, nConns,
                 acceptErrs, localConns, sshConns, remoteConns, sshSt, remote,
                 pc, tmp, task, err, willClose, isClosed, stopCalls, stopPre,
                 logged, remoteFirst>>

StopCloseSshs ==
  /\ stopPc = "sshs"
  /\ sshSt' = CloseAll(sshSt, sshConns)
  /\ stopPc' = "remotes"
  /\ UNCHANGED <<ownErr, built, fst, fstErr, startPc, tunnelReady, localPort, nConns,
                 acceptErrs, localConns, sshConns, remoteConns, local, remote,
                 pc, tmp, task, err, willClose, isClosed, stopCalls, stopPre,
                 logged, remoteFirst>>

\* a Stop() without the loop over remoteConns
StopCloseRemotes_Skipped ==
  /\ stopPc = "remotes"
  /\ stopPc' = "finish"
  /\ UNCHANGED <<ownErr, built, fst, fstErr, startPc, tunnelReady, localPort, nConns,
                 acceptErrs, localConns, sshConns, remoteConns, local, sshSt,
                 remote, pc, tmp, task, err, willClose, isClosed, stopCalls,
                 stopPre, logged, remoteFirst>>

StopCloseRemotes ==
  /\ stopPc = "remotes"
  /\ remote' = CloseAll(remote, remoteConns)
  /\ stopPc' = "finish"
  /\ UNCHANGED <<ownErr, built, fst, fstErr, startPc, tunnelReady, localPort, nConns,
                 acceptErrs, localConns, sshConns, remoteConns, local, sshSt,
                 pc, tmp, task, err, willClose, isClosed, stopCalls, stopPre,
                 logged, remoteFirst>>

\* a Stop() that clears willClose when it returns
StopEnd_ClearsWillClose ==
  /\ stopPc = "finish"
  /\ isClosed' = TRUE
  /\ willClose' = FALSE
  /\ stopPc' = "idle"
  /\ stopCalls' = stopCalls + 1
  /\ stopPre' = -1
  /\ UNCHANGED <<ownErr, built, fst, fstErr, startPc, tunnelReady, localPort, nConns,
                 acceptErrs, localConns, sshConns, remoteConns, local, sshSt,
                 remote, pc, tmp, task, err,
                 logged, remoteFirst>>

\* s.isClosed = true; Stop returns
StopEnd ==
  /\ stopPc = "finish"
  /\ isClosed' = TRUE
  /\ stopPc' = "idle"
  /\ stopCalls' = stopCalls + 1
  /\ stopPre' = -1
  /\ UNCHANGED <<ownErr, built, fst, fstErr, startPc, tunnelReady, localPort, nConns,
                 acceptErrs, localConns, sshConns, remoteConns, local, sshSt,
                 remote, pc, tmp, task, err, willClose,
                 logged, remoteFirst>>

Start == StartListenFail \/ StartListenOk \/ StartSendFalse \/ StartSendTrue
           \/ AcceptFail \/ AcceptOk

forwardConnection(c) ==
  HandshakeFail(c) \/ HandshakeOk(c) \/ TrackSsh(c) \/ DialFail(c) \/ DialOk(c)
    \/ TrackRemote(c)

forwarderFunc(c, d) == CopyReturn(c, d) \/ CopyFinish(c, d)

Stop == StopBegin \/ StopCloseLocals \/ StopCloseSshs \/ StopCloseRemotes \/ StopEnd

Next ==
  \/ BuildCall
  \/ FastStartCall
  \/ Start
  \/ \E c \in Conns : forwardConnection(c)
  \/ \E c \in Conns, d \in Dirs : forwarderFunc(c, d)
  \/ Stop

Spec == Init /\ [][Next]_vars

\* Scheduling: every goroutine that can take a step eventually takes one (a
\* pipeline, a copy task, a Stop() that has been entered).  Calling Stop() and
\* the arrival of connections are up to the environment and are not forced.
Fairness ==
  /\ \A c \in Conns : WF_vars(forwardConnection(c))
  /\ \A c \in Conns, d \in Dirs : WF_vars(forwarderFunc(c, d))
  /\ WF_vars(StopCloseLocals \/ StopCloseSshs \/ StopCloseRemotes \/ StopEnd)

FairSpec == Spec /\ Fairness

\* ================================================================== claims
Tracked == Range(localConns) \cup Range(sshConns) \cup Range(remoteConns)

AllTrackedClosed ==
  /\ \A c \in Range(localConns) : local[c] = "closed"
  /\ \A c \in Range(sshConns) : sshSt[c] = "closed"
  /\ \A c \in Range(remoteConns) : remote[c] = "closed"

StopReturns == stopPc = "finish" /\ stopPc' = "idle"

\* C1: when Stop() is called with N connections accepted, each at the copy
\* stage with its local socket, session and remote stream tracked, then at
\* the return of Stop() the three resources of each of the N are closed; and
\* if no further connection was accepted meanwhile, the three collections hold
\* N entries each and every entry is closed.
C1_StopClosesAllTracked ==
  [][(StopReturns /\ stopPre >= 0) =>
       /\ \A c \in 1..stopPre :
            local'[c] = "closed" /\ sshSt'[c] = "closed" /\ remote'[c] = "closed"
       /\ nConns' = stopPre =>
            /\ Len(localConns') = stopPre /\ Len(sshConns') = stopPre
            /\ Len(remoteConns') = stopPre
            /\ AllTrackedClosed']_vars

\* two pipelines were copying with everything open when Stop() closed them
C1_Witness ==
  /\ stopPc = "finish" /\ stopPre = 2 /\ nConns = 2
  /\ \A c \in 1..2 :
       /\ task[c]["r2l"] = "copying" /\ task[c]["l2r"] = "copying"
       /\ local[c] = "closed" /\ sshSt[c] = "closed" /\ remote[c] = "closed"

\* C2: once a call of Stop() has returned, every tracked resource is closed,
\* in that state and in every later one.
C2_StoppedIsTerminal == (stopCalls >= 1 /\ stopPc = "idle") => AllTrackedClosed

\* C3: a step of a call of Stop() made after an earlier call has returned
\* keeps willClose and isClosed true, leaves the three collections as they
\* are, leaves every closed resource closed and raises no fault; made on a
\* stopped engine (every tracked resource closed, as the first call leaves it
\* when nothing ran beside it) it changes no resource at all.
C3_StopIdempotent ==
  [][(stopPc' # stopPc /\ stopCalls >= 1) =>
       /\ willClose /\ willClose' /\ isClosed /\ isClosed'
       /\ <<localConns, sshConns, remoteConns>>' = <<localConns, sshConns, remoteConns>>
       /\ \A c \in Conns :
            /\ local'[c] \in {"none", "open", "closed"}
            /\ sshSt'[c] \in {"none", "open", "closed"}
            /\ remote'[c] \in {"none", "open", "closed"}
            /\ local[c] = "closed" => local'[c] = "closed"
            /\ sshSt[c] = "closed" => sshSt'[c] = "closed"
            /\ remote[c] = "closed" => remote'[c] = "closed"
       /\ AllTrackedClosed => <<local, sshSt, remote>>' = <<local, sshSt, remote>>]_vars

\* a second call of Stop() has run over tracked, closed resources
C3_Witness ==
  /\ stopCalls = 2 /\ stopPc = "idle" /\ willClose /\ isClosed
  /\ Len(localConns) = 2 /\ sshConns # <<>> /\ remoteConns # <<>>
  /\ AllTrackedClosed

\* C4: willClose is true in every step in which Stop() closes tracked
\* resources, and a copy task logs an I/O error as unexpected only while no
\* call of Stop() has closed anything yet.
C4_WillCloseBeforeClose ==
  [][/\ (stopPc \in {"locals", "sshs", "remotes"} /\ stopPc' # stopPc) => willClose
     /\ logged' # logged => (stopCalls = 0 /\ stopPc \in {"idle", "locals"})]_vars

\* Stop() closed the resources of a copying pipeline; one copy task ended with
\* the error and tore down without logging it
C4_Witness ==
  \E c \in Conns :
    /\ willClose /\ stopPc = "finish" /\ stopCalls = 0 /\ c \in Range(localConns)
    /\ task[c]["l2r"] = "done" /\ task[c]["r2l"] = "copying" /\ err[c] = "err"
    /\ c \notin logged /\ isClosed

\* C5: a pipeline whose remote side ended first with EOF logs no I/O error
\* when its other copy task finishes, Stop() not having been called.
C5_RemoteEofNotLogged ==
  [][\A c \in remoteFirst : ~willClose' => c \notin logged']_vars

\* C6: after a failed bind Start sends false, returns and never reaches the
\* accept loop: nothing is accepted, nothing is tracked.
C6_BindFailureNeverListens ==
  /\ [](startPc \in {"sendFalse", "returned"} =>
          /\ nConns = 0 /\ acceptErrs = 0 /\ Tracked = {}
          /\ tunnelReady = IF startPc = "returned" THEN <<FALSE>> ELSE <<>>)
  /\ [][startPc = "sendFalse" => startPc' \in {"sendFalse", "returned"}]_vars
  /\ [][startPc = "returned" => startPc' = "returned"]_vars

\* the bind failed, false was delivered and Start returned
C6_Witness == startPc = "returned" /\ tunnelReady = <<FALSE>> /\ fst = "returned"

\* C7: Start sends on tunnelReady once: nothing before the bind is decided,
\* false and nothing else when it failed, true and nothing else when it
\* succeeded, and true is received before the accept loop accepts anything.
C7_ReadySignalOnce ==
  /\ Len(tunnelReady) <= 1
  /\ startPc \in {"idle", "listen", "sendFalse", "sendTrue"} => tunnelReady = <<>>
  /\ startPc = "returned" => tunnelReady = <<FALSE>>
  /\ startPc = "accept" => tunnelReady = <<TRUE>>
  /\ (nConns > 0 \/ acceptErrs > 0) => tunnelReady = <<TRUE>>

\* true was delivered and a connection has been accepted since
C7_Witness == tunnelReady = <<TRUE>> /\ nConns >= 1 /\ startPc = "accept"

\* C8: FastStartTunnel returns without error only when true was delivered on
\* tunnelReady.
C8_FastStartOnlyWhenRunning ==
  (fst = "returned" /\ fstErr = "nil") => tunnelReady = <<TRUE>>

\* a step in which the pipeline of connection c fails: the handshake or the
\* dial fails, or a copy task runs its error branch
PipelineFails(c) ==
  \/ pc[c] \in {"handshake", "dial"} /\ pc'[c] = "aborted"
  \/ \E d \in Dirs : task[c][d] = "returned" /\ err[c] # "nil" /\ task'[c][d] = "done"

Constructed == fst = "waiting" \/ (fst = "returned" /\ fstErr = "nil")

\* C10: a constructed tunnel has a local port in [50000, 65000), and the port
\* never changes afterwards, a failed bind included.
C10_LocalPortRange ==
  /\ [](Constructed => (50000 <= localPort /\ localPort < 65000))
  /\ [][Constructed => localPort' = localPort]_vars

\* the largest port was drawn, the bind failed, and the port is what it was
C10_Witness == localPort = 64999 /\ startPc = "returned"

\* C11: for a destination string with a host and without a port,
\* BuildTunnelConfig returns a configuration with remote port 80 when the
\* protocol is "http" or left out and 443 when it is "https"; with any other
\* protocol it returns an error and no configuration.
C11_DefaultPortTable ==
  (built.err # "not called" /\ built.parts.port = {} /\ built.parts.host # <<>>) =>
    IF built.parts.protocol \in {{}, {HTTP}}
    THEN /\ built.err = "nil" /\ Cardinality(built.cfg) = 1
         /\ \A cfg \in built.cfg : cfg.RemotePort = 80 /\ cfg.RemoteAddr = built.parts.host
    ELSE IF built.parts.protocol = {HTTPS}
    THEN /\ built.err = "nil" /\ Cardinality(built.cfg) = 1
         /\ \A cfg \in built.cfg : cfg.RemotePort = 443 /\ cfg.RemoteAddr = built.parts.host
    ELSE built.err # "nil" /\ built.cfg = {}

\* "https://h" was built: no port given, port 443 resolved
C11_Witness ==
  /\ built.parts.port = {} /\ built.parts.host = <<"h">>
  /\ built.parts.protocol = {HTTPS} /\ built.err = "nil"
  /\ \E cfg \in built.cfg : cfg.RemotePort = 443

\* the pipeline of connection c has completed: aborted at the handshake or at
\* the dial, or both copy tasks have finished
Completed(c) ==
  \/ pc[c] = "aborted"
  \/ pc[c] = "copy" /\ \A d \in Dirs : task[c][d] = "done"

\* C12: once the pipeline of an accepted connection has completed, its SSH
\* session and its remote stream are each closed or were never opened.
C12_CompletedPipelineReleased ==
  \A c \in Conns :
    Completed(c) => (sshSt[c] \in {"none", "closed"} /\ remote[c] \in {"none", "closed"})

\* C13: an entry of localConns, sshConns or remoteConns stays in its
\* collection in every later state.
C13_NoTrackedEntryLost ==
  [][\A c \in Conns :
       /\ c \in Range(localConns) => c \in Range(localConns')
       /\ c \in Range(sshConns) => c \in Range(sshConns')
       /\ c \in Range(remoteConns) => c \in Range(remoteConns')]_vars

\* C14: when a copy task whose io.Copy returned an error finishes, the local
\* socket, the remote stream and the session of its pipeline are closed and
\* isClosed is true, whatever willClose is.
C14_CopyErrorTearsDown ==
  [][\A c \in Conns, d \in Dirs :
       (<<c, d>> \in ownErr /\ task[c][d] = "returned" /\ task'[c][d] = "done") =>
         /\ local'[c] = "closed" /\ remote'[c] = "closed" /\ sshSt'[c] = "closed"
         /\ isClosed']_vars

\* C15: a pipeline aborted at the handshake has its local socket closed and
\* no session opened or tracked; one aborted at the dial has its local socket
\* and its session closed; in both cases no remote stream is opened or
\* tracked, no copy task is started and the pipeline stays aborted.
C15_AbortReleasesPartial ==
  /\ [](\A c \in Conns : pc[c] = "aborted" =>
          /\ local[c] = "closed"
          /\ sshSt[c] \in {"none", "closed"}
          /\ sshSt[c] = "none" => c \notin Range(sshConns)
          /\ remote[c] = "none" /\ c \notin Range(remoteConns)
          /\ \A d \in Dirs : task[c][d] = "none")
  /\ [][\A c \in Conns :
          /\ (pc[c] = "handshake" /\ pc'[c] = "aborted") =>
               (local'[c] = "closed" /\ sshSt'[c] = "none")
          /\ (pc[c] = "dial" /\ pc'[c] = "aborted") =>
               (local'[c] = "closed" /\ sshSt'[c] = "closed")
          /\ pc[c] = "aborted" => pc'[c] = "aborted"]_vars

\* one pipeline was aborted at the handshake, another at the dial, with no
\* Stop() involved
C15_Witness ==
  /\ ~willClose
  /\ pc[1] = "aborted" /\ sshSt[1] = "none" /\ local[1] = "closed"
  /\ pc[2] = "aborted" /\ sshSt[2] = "closed" /\ local[2] = "closed"
  /\ 2 \in Range(sshConns)

\* C16: a failed accept tracks nothing and leaves the loop at its accept; a
\* successful accept appends the new socket to localConns and leaves the loop
\* at its accept; and the loop can accept whatever state the pipelines of the
\* earlier connections are in.
C16_AcceptLoopNeverWaits ==
  /\ [][acceptErrs' # acceptErrs =>
          /\ nConns' = nConns /\ local' = local
          /\ <<localConns, sshConns, remoteConns>>' = <<localConns, sshConns, remoteConns>>
          /\ startPc = "accept" /\ startPc' = "accept"]_vars
  /\ [][nConns' # nConns =>
          /\ nConns' = nConns + 1
          /\ localConns' = Append(localConns, nConns')
          /\ local'[nConns'] = "open"
          /\ startPc = "accept" /\ startPc' = "accept"]_vars
  /\ []((startPc = "accept" /\ nConns < MaxConns) => ENABLED AcceptOk)

\* an accept failed, and two connections were accepted before the pipeline of
\* the first made a step
C16_Witness ==
  /\ acceptErrs = 1 /\ nConns = 2
  /\ pc[1] = "handshake" /\ pc[2] = "handshake"
  /\ localConns = <<1, 2>>

\* C17: under fair scheduling, every connection that was accepted when
\* Stop() started iterating the collections eventually has its pipeline
\* finished with its local socket closed and its session and remote stream
\* closed or never opened.
C17_ShutdownReleasesAll ==
  \A c \in Conns :
    (stopPc = "locals" /\ c <= nConns) ~>
      (/\ Completed(c)
       /\ local[c] = "closed"
       /\ sshSt[c] \in {"none", "closed"}
       /\ remote[c] \in {"none", "closed"})

\* C18: whenever isClosed is true, Stop() was requested (willClose is true)
\* and every tracked socket, session and remote stream is closed.
C18_ClosedMeansTornDown == isClosed => (willClose /\ AllTrackedClosed)

\* C19: willClose and isClosed are false as long as no connection was
\* accepted and Stop() was not entered, neither flag ever goes from true back
\* to false, and willClose changes only in the first step of Stop().
C19_FlagsMonotone ==
  /\ []((nConns = 0 /\ stopCalls = 0 /\ stopPc = "idle") => (~willClose /\ ~isClosed))
  /\ [][/\ willClose => willClose'
        /\ isClosed => isClosed'
        /\ willClose' # willClose => (stopPc = "idle" /\ stopPc' = "locals")]_vars

\* Stop() has returned twice and a copy task has finished after the first
\* Stop() set the flags
C19_Witness ==
  /\ willClose /\ isClosed /\ stopCalls = 2
  /\ \E c \in Conns : \A d \in Dirs : task[c][d] = "done"
====
